---- MODULE Spec2Model ----
(***************************************************************************)
(* chrome_driver.py: locate the installed browser's version, resolve the   *)
(* matching chromedriver version in the remote index, download and unpack  *)
(* it when the local binary is absent or stale, and put its directory on   *)
(* PATH.                                                                   *)
(*                                                                         *)
(* Python strings are sequences of one-character strings.  A few fixed     *)
(* literals of the source (host names, "chromedriver", product names) are  *)
(* kept as one element each; nothing in the model looks inside them.       *)
(***************************************************************************)
EXTENDS Integers, Sequences, FiniteSets, TLC

VARIABLES
    sys_platform,          \* sys.platform of the running interpreter
    maxsize_bits,          \* sys.maxsize = 2^maxsize_bits - 1
    target,                \* the target directory this caller passes to install(); <<>>: none
    environ,               \* os.environ: [has |-> 'PATH' in os.environ, val |-> os.environ['PATH']]
    fs,                    \* driver directories on disk: directory path -> <<>> (no driver file) or <<file>>
    pc,                    \* position of the current install() call
    arg_path,              \* install(path=...) after the cwd override; <<>> is None
    no_ssl,                \* install(no_ssl=...)
    platform,              \* get_chrome_version: the pair get_platform_architecture returned
    response,              \* the archive endpoint's answer to this call's download; <<>>: none
    browser,               \* version of the browser installed on the machine; <<>> is "not installed"
    chrome_version,        \* download_chromedriver: chrome_version
    chromedriver_version,  \* download_chromedriver: chromedriver_version
    chromedriver_filepath, \* install: chromedriver_filepath (what download_chromedriver returned)
    result,                \* how the call ended: [kind |-> "none" | "path" | "raise", val |-> ...]
    requests,              \* URLs opened with urllib.request.urlopen during the call
    spawned,               \* subprocesses started during the call
    fetched,               \* whether the call took the download branch (lines 179-191)
    prev_dir,              \* driver directory of the previous call when it returned a path, else <<>>
    query,                 \* resolver run: [version |-> ..., index |-> ...]
    matched                \* resolver run: outcome of get_matched_chromedriver_version

vars == <<sys_platform, maxsize_bits, target, environ, fs, pc, arg_path, no_ssl, browser,
          chrome_version, chromedriver_version, chromedriver_filepath, result,
          requests, spawned, fetched, prev_dir, platform, response, query, matched>>

(***************************************************************************)
(* Bounds                                                                  *)
(***************************************************************************)
\* longest index document of the resolver runs
MaxIndexLen == 2
\* longest index document the endpoint answers an install() call with
MaxReplyLen == 1

(***************************************************************************)
(* String helpers (str methods the source uses)                            *)
(***************************************************************************)
None == <<>>

\* s.startswith(p)
StartsWith(s, p) == Len(p) <= Len(s) /\ SubSeq(s, 1, Len(p)) = p

\* s.find(p): the lowest 0-based index where p occurs in s, -1 when it does not
Find(s, p) ==
    LET hits == {i \in 0..(Len(s) - Len(p)) : SubSeq(s, i + 1, i + Len(p)) = p}
    IN  IF hits = {} THEN -1 ELSE CHOOSE i \in hits : \A j \in hits : i <= j

\* p in s
Contains(s, p) == Find(s, p) # -1

\* s.split(sep), sep one character
RECURSIVE Split(_, _)
Split(s, sep) ==
    LET i == Find(s, <<sep>>)
    IN  IF i = -1 THEN <<s>>
        ELSE <<SubSeq(s, 1, i)>> \o Split(SubSeq(s, i + 2, Len(s)), sep)

\* s.replace(word, ''), word one element of s
RECURSIVE Remove(_, _)
Remove(s, word) ==
    IF s = <<>> THEN <<>>
    ELSE IF Head(s) = word THEN Remove(Tail(s), word)
    ELSE <<Head(s)>> \o Remove(Tail(s), word)

Whitespace == {" ", "\n"}

\* s.strip()
RECURSIVE LStrip(_)
LStrip(s) == IF s # <<>> /\ Head(s) \in Whitespace THEN LStrip(Tail(s)) ELSE s

RECURSIVE RStrip(_)
RStrip(s) ==
    IF s # <<>> /\ s[Len(s)] \in Whitespace THEN RStrip(SubSeq(s, 1, Len(s) - 1)) ELSE s

Strip(s) == RStrip(LStrip(s))

\* s.split(): the whitespace-separated words of s
RECURSIVE Words(_)
Words(s) ==
    LET t == LStrip(s)
        ends == {i \in 1..Len(t) : t[i] \in Whitespace}
        e == IF ends = {} THEN Len(t) + 1 ELSE CHOOSE i \in ends : \A j \in ends : i <= j
    IN  IF t = <<>> THEN <<>>
        ELSE <<SubSeq(t, 1, e - 1)>> \o Words(SubSeq(t, e, Len(t)))

\* number of elements of the sequence s equal to x
Count(s, x) == Cardinality({i \in 1..Len(s) : s[i] = x})

(***************************************************************************)
(* The machine the tool runs on                                            *)
(***************************************************************************)
Linux  == <<"l", "i", "n", "u", "x">>
Darwin == <<"d", "a", "r", "w", "i", "n">>
Win    == <<"w", "i", "n">>
Win32  == Win \o <<"3", "2">>
Cygwin == <<"c", "y", "g", "w", "i", "n">>

\* the interpreters the model runs under: <<sys.platform, bits>>, where sys.maxsize
\* is 2^31 - 1 on a 32-bit build and 2^63 - 1 on a 64-bit build
Machines ==
    {<<Linux, 63>>, <<Linux, 31>>, <<Darwin, 63>>, <<Darwin, 31>>, <<Win32, 63>>,
     <<Win32, 31>>, <<Cygwin, 63>>}

\* browser versions that may be installed, and the versions the remote index lists
V41  == <<"4", ".", "1">>
V42  == <<"4", ".", "2">>
V451 == <<"4", "5", ".", "1">>
Browsers == {None, V41, V451}

\* directories: the package directory, a directory the caller may supply, and a
\* path the caller may supply that is no directory
ModuleDir == <<"/", "m">>
UserDir   == <<"/", "p">>
BadDir    == <<"/", "q">>
OtherDir  == <<"/", "u">>
ExistingDirs == {ModuleDir, UserDir, OtherDir}
Targets == {None, UserDir}

os_getcwd == UserDir

\* os.sep, os.path.join, os.path.dirname
os_sep == IF StartsWith(sys_platform, Win) THEN "\\" ELSE "/"

join(a, b) == a \o <<os_sep>> \o b

dirname(p) ==
    LET cuts == {i \in 1..Len(p) : p[i] = os_sep}
    IN  IF cuts = {} THEN <<>>
        ELSE SubSeq(p, 1, (CHOOSE i \in cuts : \A j \in cuts : j <= i) - 1)

basename(p) == SubSeq(p, Len(dirname(p)) + 2, Len(p))

(***************************************************************************)
(* Small functions of the source                                           *)
(***************************************************************************)
get_chromedriver_filename ==
    IF StartsWith(sys_platform, Win) THEN <<"chromedriver", ".exe">>
    ELSE <<"chromedriver">>

get_variable_separator ==
    IF StartsWith(sys_platform, Win) THEN ";" ELSE ":"

\* sys.maxsize > 2 ** 32, with sys.maxsize = 2^bits - 1
MaxsizeAbove2To32(bits) == bits > 32

Raise(exc, msg) == [kind |-> "raise", val |-> <<exc>> \o msg]
Return(v) == [kind |-> IF v = None THEN "none" ELSE "value", val |-> v]

\* faulty variant: falls back to a platform instead of raising
get_platform_architecture_fallback(plat, bits) ==
    IF StartsWith(plat, Linux) THEN Return(<<"linux", "64">>)
    ELSE IF plat = Darwin THEN Return(<<"mac", "64">>)
    ELSE Return(<<"win", "32">>)

get_platform_architecture(plat, bits) ==
    IF StartsWith(plat, Linux) /\ MaxsizeAbove2To32(bits) THEN Return(<<"linux", "64">>)
    ELSE IF plat = Darwin THEN Return(<<"mac", "64">>)
    ELSE IF StartsWith(plat, Win) THEN Return(<<"win", "32">>)
    ELSE Raise("RuntimeError",
               <<"Could not determine chromedriver download URL for this platform.">>)

get_chromedriver_url(version, nossl) ==
    LET base_url == IF nossl THEN <<"http://chromedriver.storage.googleapis.com/">>
                    ELSE <<"https://chromedriver.storage.googleapis.com/">>
        pa == get_platform_architecture(sys_platform, maxsize_bits).val
    IN  base_url \o version \o <<"/chromedriver_">> \o pa \o <<".zip">>

IndexUrl(nossl) ==
    IF nossl THEN <<"http://chromedriver.storage.googleapis.com">>
    ELSE <<"https://chromedriver.storage.googleapis.com">>

get_major_version(version) == Split(version, ".")[1]

(***************************************************************************)
(* Installed-version reader                                                *)
(***************************************************************************)
\* what the browser prints for --version, and what the registry queries print
BrowserStdout(v) == <<"Google Chrome", " ">> \o v \o <<" ", "\n">>

RegStdout(v) ==
    <<"\n", "HKEY_CURRENT_USER\\Software\\Google\\Chrome\\BLBeacon", "\n", " ", " ",
      "version", " ", "REG_SZ", " ">> \o v \o <<"\n", "\n">>

PowershellStdout(v) == IF v = None THEN <<>> ELSE v \o <<"\n">>

\* shutil.which finds one of the known executables exactly when a browser is installed
get_linux_executable_path(installed) ==
    IF installed # None THEN Return(<<"/usr/bin/google-chrome">>)
    ELSE Raise("ValueError", <<"No chrome executable found on PATH">>)

\* installed: the browser version on the machine (None: no browser);
\* reg_answers: whether the first registry query prints the value.
\* The result carries the number of subprocesses the function started.
get_chrome_version(installed, reg_answers) ==
    LET pa == get_platform_architecture(sys_platform, maxsize_bits)
        name == pa.val[1]
        Ran(out, n) == [out |-> out, spawned |-> n,
                        platform |-> IF pa.kind = "raise" THEN None ELSE pa.val]
    IN  IF pa.kind = "raise" THEN Ran(pa, 0)
        ELSE IF name = "linux" THEN
            LET path == get_linux_executable_path(installed)
            IN  IF path.kind = "raise" THEN Ran(path, 0)
                ELSE Ran(Return(Strip(Remove(Remove(BrowserStdout(installed),
                                                    "Chromium"), "Google Chrome"))), 1)
        ELSE IF name = "mac" THEN
            IF installed = None
            THEN Ran(Raise("FileNotFoundError",
                           <<"/Applications/Google Chrome.app/Contents/MacOS/Google Chrome">>), 1)
            ELSE Ran(Return(Strip(Remove(BrowserStdout(installed), "Google Chrome"))), 1)
        ELSE IF installed # None /\ reg_answers
            THEN LET words == Words(Strip(RegStdout(installed)))
                 IN  Ran(Return(words[Len(words)]), 1)
            ELSE Ran(Return(Strip(PowershellStdout(installed))), 2)

(***************************************************************************)
(* Remote version resolver                                                 *)
(***************************************************************************)
\* Key elements of the index document: the element's text, None for an element
\* without text.  K4 names a single-segment version directory, KIcons a key that
\* is no version directory.
K41    == V41 \o <<"/", "c">>
K42    == V42 \o <<"/", "c">>
K451   == V451 \o <<"/", "c">>
K4     == <<"4", "/", "c">>
KIcons == <<"i", "/", "c">>
Keys == {K41, K42, K451, K4, KIcons, None}

SeqsUpTo(S, n) == UNION {[1..m -> S] : m \in 0..n}
Indexes == SeqsUpTo(Keys, MaxIndexLen)

\* faulty variant: the last matching key wins
RECURSIVE scan_keys_newest(_, _)
scan_keys_newest(version, keys) ==
    IF keys = <<>> THEN Return(None)
    ELSE LET k == keys[Len(keys)]
         IN  IF k = None THEN Raise("AttributeError", <<"'NoneType' object has no attribute 'find'">>)
             ELSE IF Find(k, get_major_version(version) \o <<".">>) = 0
                  THEN Return(Split(k, "/")[1])
                  ELSE scan_keys_newest(version, SubSeq(keys, 1, Len(keys) - 1))

\* lines 138-141: the loop over the Key elements
RECURSIVE scan_keys(_, _)
scan_keys(version, keys) ==
    IF keys = <<>> THEN Return(None)
    ELSE LET k == Head(keys)
         IN  IF k = None THEN Raise("AttributeError", <<"'NoneType' object has no attribute 'find'">>)
             ELSE IF Find(k, get_major_version(version) \o <<".">>) = 0
                  THEN Return(Split(k, "/")[1])
                  ELSE scan_keys(version, Tail(keys))

\* reply: <<>> when urlopen fails, <<index>> when it answers with the index document
get_matched_chromedriver_version(version, reply) ==
    IF reply = <<>> THEN Raise("URLError", <<>>)
    ELSE scan_keys(version, reply[1])

(***************************************************************************)
(* Local binary inspector                                                  *)
(***************************************************************************)
\* what a driver binary prints for -v
DriverStdout(v) == <<"ChromeDriver", " ">> \o v \o <<" ", "(", "r", "7", ")", "\n">>
BrokenStdout == <<"e", "r", "r", "\n">>

isdir(d) == d \in ExistingDirs \/ d \in DOMAIN fs

isfile(p) ==
    /\ dirname(p) \in DOMAIN fs
    /\ fs[dirname(p)] # <<>>
    /\ basename(p) = get_chromedriver_filename

FileAt(p) == fs[dirname(p)][1]

DigitsAndDot == {"0", "1", "2", "3", "4", "5", "6", "7", "8", "9", "."}

\* re.match(r'.*?([\d.]+).*?', s)[1]: the first run of digits and dots of the
\* first line; <<>> stands for "no match" (the subscript then raises TypeError)
match_version(s) ==
    LET starts == {i \in 1..Len(s) : s[i] \in DigitsAndDot /\ \A j \in 1..(i - 1) : s[j] # "\n"}
        b == CHOOSE i \in starts : \A j \in starts : i <= j
        stops == {i \in b..Len(s) : s[i] \notin DigitsAndDot}
        e == IF stops = {} THEN Len(s) + 1 ELSE CHOOSE i \in stops : \A j \in stops : i <= j
    IN  IF starts = {} THEN <<>> ELSE SubSeq(s, b, e - 1)

\* faulty variant: reads the version without running the file
check_version_ignores_mode(binary, required_version) ==
    /\ isfile(binary)
    /\ match_version(FileAt(binary).out) = required_version

\* any exception of check_output or of the match is caught and gives False
check_version(binary, required_version) ==
    /\ isfile(binary)
    /\ FileAt(binary).x
    /\ match_version(FileAt(binary).out) # <<>>
    /\ match_version(FileAt(binary).out) = required_version

(***************************************************************************)
(* Fetch & unpack, environment installer                                   *)
(***************************************************************************)
\* answers of the archive endpoint: code 0 is a transport error (URLError), a non-200
\* code carries no archive; a 200 answer carries a zip with the driver entry, a zip
\* without it, or bytes that are no zip
Responses ==
    {[code |-> 200, body |-> b] : b \in {"driver", "other", "garbage"}}
        \cup {[code |-> c, body |-> "garbage"] : c \in {0, 204, 404}}

\* faulty variant: one directory for every major version
driver_dir_flat(path, major_version) ==
    IF path # None THEN join(path, <<"d">>) ELSE join(ModuleDir, <<"d">>)

\* lines 163-174: chromedriver_dir (os.path.abspath leaves the model's absolute paths alone)
driver_dir(path, major_version) ==
    IF path # None THEN join(path, major_version) ELSE join(ModuleDir, major_version)

\* lines 180-181
makedirs(disk, dir) == IF dir \in DOMAIN disk THEN disk ELSE (dir :> <<>>) @@ disk

\* line 191: ZipFile.extract writes the entry over the file at the target; a file
\* that was there keeps its mode, a new file is created without the execute bit
extract(disk, dir, version) ==
    [disk EXCEPT ![dir] = <<[out |-> DriverStdout(version),
                            x |-> IF disk[dir] # <<>> THEN disk[dir][1].x ELSE FALSE]>>]

\* faulty variant: the mode is left as extracted
chmod_never(disk, dir) == disk

\* lines 194-195
ensure_executable(disk, dir) ==
    IF ~disk[dir][1].x THEN [disk EXCEPT ![dir] = <<[disk[dir][1] EXCEPT !.x = TRUE]>>]
    ELSE disk

\* faulty variant: a second attempt
archive_requests_retry(url) == <<url, url>>

\* line 184: one urlopen of the archive URL
archive_requests(url) == <<url>>

\* line 188
fetch_error(url) == Raise("RuntimeError", <<"Failed to download chromedriver archive: ">> \o url)

\* lines 25-28
install_environ(env, chromedriver_dir) ==
    IF ~env.has THEN [has |-> TRUE, val |-> chromedriver_dir]
    ELSE IF ~Contains(env.val, chromedriver_dir)
         THEN [has |-> TRUE, val |-> chromedriver_dir \o <<get_variable_separator>> \o env.val]
         ELSE env

(***************************************************************************)
(* install(): one call, step by step                                       *)
(***************************************************************************)
Pending == [kind |-> "pending", val |-> <<>>]

\* the call ends without a path: install() returns None, or the exception propagates
Finish(r) ==
    /\ result' = r
    /\ pc' = "done"
    /\ prev_dir' = None

\* lines 17-20: the caller's arguments, and the browser the machine has at that time.
\* The caller passes its target directory or a path that is no directory; it sets
\* cwd when its target is the working directory.
Call ==
    /\ pc \in {"idle", "done"}
    /\ \E p \in {target, BadDir}, cwd \in {FALSE, target = os_getcwd}, s \in BOOLEAN,
          b \in Browsers :
        /\ arg_path' = IF cwd THEN os_getcwd ELSE p
        /\ no_ssl' = s
        /\ browser' = b
    /\ pc' = "called"
    /\ chrome_version' = None
    /\ chromedriver_version' = None
    /\ chromedriver_filepath' = None
    /\ result' = Pending
    /\ requests' = <<>>
    /\ spawned' = 0
    /\ fetched' = FALSE
    /\ platform' = None
    /\ response' = None
    /\ UNCHANGED <<sys_platform, maxsize_bits, target, environ, fs, prev_dir, query, matched>>

\* lines 153-156
GetChromeVersion ==
    /\ pc = "called"
    /\ \E reg_answers \in BOOLEAN :
        LET r == get_chrome_version(browser, reg_answers)
        IN  /\ spawned' = spawned + r.spawned
            /\ platform' = r.platform
            /\ IF r.out.kind = "raise" THEN Finish(r.out) /\ UNCHANGED chrome_version
               ELSE IF r.out.val = <<>>
                    THEN Finish([kind |-> "none", val |-> <<>>]) /\ UNCHANGED chrome_version
                    ELSE /\ chrome_version' = r.out.val
                         /\ pc' = "versioned"
                         /\ UNCHANGED <<result, prev_dir>>
    /\ UNCHANGED <<sys_platform, maxsize_bits, target, environ, fs, arg_path, no_ssl, browser,
                   chromedriver_version, chromedriver_filepath, requests, fetched,
                   response, query, matched>>

\* lines 157-160
Resolve ==
    /\ pc = "versioned"
    /\ requests' = Append(requests, IndexUrl(no_ssl))
    /\ \E reply \in {<<>>} \cup {<<i>> : i \in SeqsUpTo(Keys, MaxReplyLen)} :
        LET m == get_matched_chromedriver_version(chrome_version, reply)
        IN  IF m.kind = "raise" THEN Finish(m) /\ UNCHANGED chromedriver_version
            ELSE IF m.val = <<>>
                 THEN Finish([kind |-> "none", val |-> <<>>]) /\ UNCHANGED chromedriver_version
                 ELSE /\ chromedriver_version' = m.val
                      /\ pc' = "resolved"
                      /\ UNCHANGED <<result, prev_dir>>
    /\ UNCHANGED <<sys_platform, maxsize_bits, target, environ, fs, arg_path, no_ssl, browser,
                   chrome_version, chromedriver_filepath, spawned, fetched, platform,
                   response, query, matched>>

\* lines 179-191: the download branch, given the endpoint's answer
Download(dir, filepath, resp) ==
    LET url == get_chromedriver_url(chromedriver_version, no_ssl)
        made == makedirs(fs, dir)
    IN  /\ fetched' = TRUE
        /\ response' = resp
        /\ requests' = requests \o archive_requests(url)
        /\ IF resp.code # 200
           THEN Finish(fetch_error(url)) /\ fs' = made /\ UNCHANGED chromedriver_filepath
           ELSE IF resp.body = "garbage"
                THEN /\ Finish(Raise("BadZipFile", <<"File is not a zip file">>))
                     /\ fs' = made
                     /\ UNCHANGED chromedriver_filepath
                ELSE IF resp.body = "other"
                     THEN /\ Finish(Raise("KeyError", get_chromedriver_filename))
                          /\ fs' = made
                          /\ UNCHANGED chromedriver_filepath
                     ELSE /\ fs' = ensure_executable(extract(made, dir, chromedriver_version), dir)
                          /\ chromedriver_filepath' = filepath
                          /\ pc' = "returned"
                          /\ UNCHANGED <<result, prev_dir>>

\* lines 161-196
Fetch ==
    /\ pc = "resolved"
    /\ LET major_version == get_major_version(chromedriver_version)
           chromedriver_dir == driver_dir(arg_path, major_version)
           filepath == join(chromedriver_dir, get_chromedriver_filename)
       IN  IF arg_path # None /\ ~isdir(arg_path)
           THEN /\ Finish(Raise("ValueError", <<"Invalid path: ">> \o arg_path))
                /\ UNCHANGED <<fs, chromedriver_filepath, requests, spawned, fetched,
                               response>>
           ELSE /\ spawned' = IF isfile(filepath) THEN spawned + 1 ELSE spawned
                /\ IF ~isfile(filepath) \/ ~check_version(filepath, chromedriver_version)
                   THEN \E resp \in Responses : Download(chromedriver_dir, filepath, resp)
                   ELSE /\ fs' = ensure_executable(fs, chromedriver_dir)
                        /\ chromedriver_filepath' = filepath
                        /\ pc' = "returned"
                        /\ UNCHANGED <<result, prev_dir, requests, fetched, response>>
    /\ UNCHANGED <<sys_platform, maxsize_bits, target, environ, arg_path, no_ssl, browser,
                   chrome_version, chromedriver_version, platform, query, matched>>

\* lines 21-29
InstallEnv ==
    /\ pc = "returned"
    /\ environ' = install_environ(environ, dirname(chromedriver_filepath))
    /\ result' = [kind |-> "path", val |-> chromedriver_filepath]
    /\ prev_dir' = dirname(chromedriver_filepath)
    /\ pc' = "done"
    /\ UNCHANGED <<sys_platform, maxsize_bits, target, fs, arg_path, no_ssl, browser,
                   chrome_version, chromedriver_version, chromedriver_filepath,
                   requests, spawned, fetched, platform, response, query, matched>>

\* what an earlier run or the user may have left in the driver directory of major 4
InitFiles ==
    {<<>>, <<[out |-> DriverStdout(V41), x |-> TRUE]>>,
     <<[out |-> DriverStdout(V41), x |-> FALSE]>>,
     <<[out |-> BrokenStdout, x |-> TRUE]>>}

Init ==
    /\ \E m \in Machines : sys_platform = m[1] /\ maxsize_bits = m[2]
    /\ target \in Targets
    /\ environ \in {[has |-> FALSE, val |-> <<>>], [has |-> TRUE, val |-> OtherDir]}
    /\ fs \in {<<>>} \cup {(driver_dir(target, <<"4">>) :> f) : f \in InitFiles}
    /\ pc = "idle"
    /\ arg_path = None
    /\ no_ssl = FALSE
    /\ browser = None
    /\ chrome_version = None
    /\ chromedriver_version = None
    /\ chromedriver_filepath = None
    /\ result = Pending
    /\ requests = <<>>
    /\ spawned = 0
    /\ fetched = FALSE
    /\ prev_dir = None
    /\ platform = None
    /\ response = None
    /\ query = [version |-> V41, index |-> <<>>]
    /\ matched = Return(None)

Next == Call \/ GetChromeVersion \/ Resolve \/ Fetch \/ InstallEnv

Spec == Init /\ [][Next]_vars

(***************************************************************************)
(* The resolver on its own: every installed version against every index    *)
(***************************************************************************)
ResolverRun ==
    /\ \E v \in {V41, V42, V451}, i \in Indexes :
        /\ query' = [version |-> v, index |-> i]
        /\ matched' = get_matched_chromedriver_version(v, <<i>>)
    /\ UNCHANGED <<sys_platform, maxsize_bits, target, environ, fs, pc, arg_path, no_ssl, browser,
                   chrome_version, chromedriver_version, chromedriver_filepath, result,
                   requests, spawned, fetched, prev_dir, platform, response>>

InitResolver ==
    /\ Init
    /\ sys_platform = Linux /\ maxsize_bits = 63
    /\ target = None
    /\ ~environ.has
    /\ fs = <<>>

SpecResolver == InitResolver /\ [][ResolverRun]_vars

(***************************************************************************)
(* Vocabulary of the properties                                            *)
(***************************************************************************)
\* the operating systems and word sizes the tool supports, and the tags it may use
SupportedMachines ==
    {<<Linux, 63>>, <<Darwin, 63>>, <<Darwin, 31>>, <<Win32, 63>>, <<Win32, 31>>}
PlatformTags == {<<"linux", "64">>, <<"mac", "64">>, <<"win", "32">>}
Supported == <<sys_platform, maxsize_bits>> \in SupportedMachines

Raised(r, exc) == r.kind = "raise" /\ r.val[1] = exc

\* the error of an unsupported platform
NoPlatform(r) ==
    r = [kind |-> "raise",
         val |-> <<"RuntimeError",
                   "Could not determine chromedriver download URL for this platform.">>]

\* <base>/<major>/<driver-name> for the call's target directory and resolved version
BaseDir == IF arg_path = None THEN ModuleDir ELSE arg_path
MajorDir(version) == BaseDir \o <<os_sep>> \o get_major_version(version)
DriverPath(version) == MajorDir(version) \o <<os_sep>> \o get_chromedriver_filename

\* the driver file stored in directory d of the disk, <<>> when there is none
Stored(disk, d) == IF d \in DOMAIN disk THEN disk[d] ELSE <<>>

\* the entries of the search-path variable
PathEntries(env) == IF env.has THEN Split(env.val, get_variable_separator) ELSE <<>>

\* requests of the call that went to the archive endpoint
ArchiveRequests(reqs) == {i \in 1..Len(reqs) : reqs[i] # IndexUrl(no_ssl)}

\* a key "<version>/<filename>" whose version is dot-separated digits
IsVersionKey(k) ==
    /\ k # None
    /\ Contains(k, <<"/">>)
    /\ Split(k, "/")[1] # <<>>
    /\ \A i \in 1..Len(Split(k, "/")[1]) : Split(k, "/")[1][i] \in DigitsAndDot
KeyVersion(k) == Split(k, "/")[1]
LeadingSegment(v) == Split(v, ".")[1]
First(S) == CHOOSE i \in S : \A j \in S : i <= j

(***************************************************************************)
(* Properties                                                              *)
(***************************************************************************)

\* C1: when install() succeeds twice in a row with the same driver directory D,
\* the second call leaves the search-path variable unchanged and the variable
\* then holds exactly one entry equal to D.
C1_InstallerIdempotent ==
    [][(pc = "returned" /\ pc' = "done" /\ prev_dir = dirname(chromedriver_filepath))
        => /\ environ' = environ
           /\ Count(PathEntries(environ'), prev_dir) = 1]_vars

\* C2: with no browser installed, on a supported platform, the call ends by
\* returning None, without an exception, without any network request, and with
\* the disk and the search-path variable as they were.
C2_NoBrowserSoftFailure ==
    [][(Supported /\ browser = None /\ pc = "called")
        => /\ pc' = "done"
           /\ result'.kind = "none"
           /\ requests' = <<>>
           /\ fs' = fs
           /\ environ' = environ]_vars

\* C3: when the archive endpoint answers with a non-200 status or a transport
\* error, the call raises RuntimeError with the attempted URL in its message, the
\* archive was requested exactly once, and every driver file on disk is the file
\* that was there before (a directory the call created holds no file).
C3_ArchiveFailureIsFatal ==
    [][(response' # None /\ response'.code # 200)
        => /\ pc' = "done"
           /\ Raised(result', "RuntimeError")
           /\ Cardinality(ArchiveRequests(requests')) = 1
           /\ \A i \in ArchiveRequests(requests') :
                /\ requests'[i] = get_chromedriver_url(chromedriver_version, no_ssl)
                /\ Contains(result'.val, requests'[i])
           /\ \A d \in DOMAIN fs' : fs'[d] = Stored(fs, d)]_vars

C3_Witness ==
    /\ pc = "done"
    /\ response # None
    /\ response.code = 404
    /\ Raised(result, "RuntimeError")

\* C4: once the target directory is accepted, the download is skipped exactly when
\* a file exists at <base>/<major>/<driver-name>, it can be run, and the version it
\* prints equals the resolved version; a failing check is no exception but a
\* download; a skipped download returns that path and leaves the disk unchanged.
C4_SkipIffSameVersion ==
    [][(pc = "resolved" /\ pc' # "resolved" /\ ~Raised(result', "ValueError"))
        => LET stored == Stored(fs, MajorDir(chromedriver_version))
               same == /\ stored # <<>>
                       /\ stored[1].x
                       /\ match_version(stored[1].out) = chromedriver_version
           IN  /\ ~fetched' <=> same
               /\ ~same => response' # None
               /\ ~fetched' => /\ pc' = "returned"
                               /\ chromedriver_filepath' = DriverPath(chromedriver_version)
                               /\ fs' = fs
                               /\ requests' = requests]_vars

C4_Witness ==
    /\ pc = "returned"
    /\ ~fetched
    /\ chromedriver_filepath = DriverPath(chromedriver_version)

\* C5: a path that download_chromedriver() returns is <base>/<major of the
\* resolved version>/<driver-name>, a file exists there and it is executable.
C5_ReturnedPathIsExecutable ==
    pc \in {"returned", "done"} /\ chromedriver_filepath # None
        => /\ chromedriver_filepath = DriverPath(chromedriver_version)
           /\ Stored(fs, MajorDir(chromedriver_version)) # <<>>
           /\ Stored(fs, MajorDir(chromedriver_version))[1].x
           /\ pc = "done" => result = [kind |-> "path", val |-> chromedriver_filepath]

C5_Witness ==
    /\ pc = "done"
    /\ result.kind = "path"
    /\ fetched
    /\ browser = V41
    /\ chromedriver_version = V41

\* C6 (as claimed): over an index of "<version>/<filename>" keys with a key whose
\* version shares the installed version's leading segment, the resolver returns
\* the version of the first such key.
C6_FirstSharingLeadingSegment ==
    LET idx == query.index
        sharing == {i \in 1..Len(idx) :
                      LeadingSegment(KeyVersion(idx[i])) = LeadingSegment(query.version)}
    IN  ((\A i \in 1..Len(idx) : IsVersionKey(idx[i])) /\ sharing # {})
            => matched = [kind |-> "value", val |-> KeyVersion(idx[First(sharing)])]

\* C6 (amended): over an index of "<version>/<filename>" keys with a key whose
\* text starts with the installed version's leading segment and a dot, the
\* resolver returns the version of the first such key, whatever follows it.
C6_FirstKeyWithMajorDot ==
    LET idx == query.index
        hits == {i \in 1..Len(idx) :
                   StartsWith(idx[i], LeadingSegment(query.version) \o <<".">>)}
    IN  ((\A i \in 1..Len(idx) : IsVersionKey(idx[i])) /\ hits # {})
            => matched = [kind |-> "value", val |-> KeyVersion(idx[First(hits)])]

C6_Witness ==
    /\ query = [version |-> V41, index |-> <<K41, K42>>]
    /\ matched.val = V41

\* C7: over an index with no key whose leading version segment is the installed
\* version's, the resolver returns None and raises nothing.
C7_NoMatchReturnsNone ==
    LET idx == query.index
        sharing == {i \in 1..Len(idx) :
                      /\ idx[i] # None
                      /\ LeadingSegment(KeyVersion(idx[i])) = LeadingSegment(query.version)}
    IN  sharing = {} => matched = [kind |-> "none", val |-> <<>>]

\* C8: a call whose target directory is no directory ends with an exception.
C8_InvalidTargetRaises ==
    (pc = "done" /\ arg_path # None /\ arg_path \notin ExistingDirs) => result.kind = "raise"

\* C9 (as claimed): no step changes or removes a driver file that can be run and
\* prints a version.
C9_NeverOverwritten ==
    [][\A d \in DOMAIN fs :
         (fs[d] # <<>> /\ fs[d][1].x /\ match_version(fs[d][1].out) # <<>>)
            => Stored(fs', d) = fs[d]]_vars

\* C9 (amended): a returned path lies in <base>/<major>; no driver file is ever
\* removed; a driver file is replaced only by a run that resolves to the major
\* version of its directory and finds that the file is not a runnable binary
\* printing the resolved version.
C9_OverwrittenOnlyWhenStale ==
    [][/\ pc' = "returned" => dirname(chromedriver_filepath') = MajorDir(chromedriver_version)
       /\ \A d \in DOMAIN fs :
            /\ fs[d] # <<>> => Stored(fs', d) # <<>>
            /\ (fs[d] # <<>> /\ Stored(fs', d) # fs[d])
                  => /\ pc = "resolved"
                     /\ d = MajorDir(chromedriver_version)
                     /\ ~(fs[d][1].x /\ match_version(fs[d][1].out) = chromedriver_version)]_vars

C9_Witness ==
    /\ pc = "done"
    /\ result.kind = "path"
    /\ fetched
    /\ \E d, e \in DOMAIN fs :
         /\ d # e
         /\ fs[d] # <<>> /\ match_version(fs[d][1].out) = V42
         /\ fs[e] # <<>> /\ match_version(fs[e][1].out) = V451

\* C10: on a supported operating system and word size the platform pair is one of
\* linux/64, mac/64, win/32 and the call does not end with the platform error; on
\* any other the call ends with that RuntimeError before any subprocess or network
\* request, and returns nothing.
C10_PlatformClosedSet ==
    pc \notin {"idle", "called"}
        => IF Supported
           THEN platform \in PlatformTags /\ ~NoPlatform(result)
           ELSE /\ pc = "done"
                /\ NoPlatform(result)
                /\ platform = None
                /\ spawned = 0
                /\ requests = <<>>
                /\ chromedriver_filepath = None

C10_Witness ==
    /\ sys_platform = Linux
    /\ maxsize_bits = 31
    /\ pc = "done"
    /\ NoPlatform(result)

====
